---- MODULE Spec2Model ----
(***************************************************************************)
(* Model of the two concurrent stores of pounce-on-go:                     *)
(*   - ProductService (map[int]Product + sync.RWMutex + nextID) and its    *)
(*     two HTTP handlers, src/unnamed/part_004;                            *)
(*   - the bare name-keyed Store (map[string]Item + sync.Mutex),           *)
(*     src/unnamed/part_001 (the same code is in part_000:194-232).        *)
(* Every goroutine is a process whose steps are the shared-memory accesses *)
(* of the code; purely local computation is folded into the step that      *)
(* precedes it.                                                            *)
(***************************************************************************)
EXTENDS Integers, Sequences, FiniteSets, TLC

(* ------------------------------ bounds --------------------------------- *)
\* number of HTTP request goroutines served by the one ProductService
NumRequests == 3
\* number of goroutines calling the bare Store, and calls they make in all
NumTasks == 2
MaxCalls == 4

\* number of those requests used when every request body is tried
NumClients == 2

Requests == 1..NumRequests
Clients == 1..NumClients
Tasks == 1..NumTasks

(* ------------------------------ state ---------------------------------- *)
VARIABLES
  \* ProductService (the single instance main shares with all handlers)
  products,    \* ps.products : map[int]Product
  nextID,      \* ps.nextID
  mu,          \* ps.mu : sync.RWMutex of the shared instance
  crashed,     \* the runtime threw "concurrent map iteration and map write"
  \* one record per request goroutine
  pc,          \* position of the goroutine in handler / method
  req,         \* the request it serves: handler, method, body
  p,           \* createProductHandler's `var p Product`
  newProduct,  \* CreateProduct's parameter: its own copy of the handler's p
  psCopy,      \* GetProducts' receiver: the by-value copy of *service
  iter,        \* GetProducts' range iterator: keys to produce, keys produced
  out,         \* GetProducts' local slice `products`: its backing array
  listed,      \* the slice GetProducts hands out: the storage of each element
  resp,        \* what was written to the ResponseWriter
  \* history of the service (not program state)
  lockOrder,   \* requests in the order their CreateProduct took ps.mu
  invoked,     \* per GetProducts call: what had happened when it was invoked
  gotID,       \* per request: the ps.nextID its CreateProduct assigned (0: none)
  \* bare Store
  items,       \* s.items : map[string]Item
  smu,         \* s.mu : sync.Mutex, TRUE while a task holds it
  tpc,         \* position of each task
  call,        \* the call a task is making: op, argument
  ret,         \* the task's last GetItem: err, and its local `item` (Nil: nil returned)
  ptr,         \* the *Item the task's last GetItem returned: Nil or an address
  calls,       \* number of Store calls started so far
  \* history of the bare Store (not program state)
  lastPut,     \* per name: the argument of the last AddItem that stored
  seen,        \* per task: lastPut of the name when GetItem looked it up
  took,        \* per name: the argument of the last AddItem that took s.mu
  \* main of the service program
  mainPc,      \* position of main
  mux          \* http.DefaultServeMux: pattern -> handler

svcVars == <<products, nextID, mu, crashed, pc, req, p, newProduct, psCopy, iter, out, listed,
             resp, lockOrder, invoked, gotID>>
storeVars == <<items, smu, tpc, call, ret, ptr, calls, lastPut, seen, took>>
mainVars == <<mainPc, mux>>
vars == <<svcVars, storeVars, mainVars>>

(* --------------------------- data: Product ----------------------------- *)
\* type Product struct { ID int; Name string; Price int }, zero value
Product(id, name, price) == [ID |-> id, Name |-> name, Price |-> price]
ZeroProduct == Product(0, "", 0)

(* --------------------------- data: JSON body --------------------------- *)
\* A JSON member of the request body: absent, a number or a string.
Absent == [t |-> "absent", n |-> 0, s |-> ""]
Num(n) == [t |-> "num", n |-> n, s |-> ""]
Str(s) == [t |-> "str", n |-> 0, s |-> s]

\* Request bodies: an empty body, a syntax error, or an object whose members
\* id, name, price are each absent, of the right type or of the wrong type.
Bodies ==
  {[kind |-> "eof", id |-> Absent, name |-> Absent, price |-> Absent],
   [kind |-> "syntax", id |-> Absent, name |-> Absent, price |-> Absent]}
  \cup
  [kind : {"object"},
   id : {Absent, Num(7)},
   name : {Absent, Str("Apple"), Num(1)},
   price : {Absent, Num(2), Str("x")}]

\* The bodies used where the interleaving of requests is what matters.
FewBodies ==
  {b \in Bodies : \/ b.kind = "syntax"
                  \/ b.kind = "object" /\ b.name = Str("Apple") /\ b.price = Num(2)}

\* The one body of the end-to-end example: {"name": "Apple", "price": 2}.
PlainBodies == {b \in FewBodies : b.kind = "object" /\ b.id = Absent}

\* encoding/json into an int field: absent keeps the zero value, a number is
\* stored, a string is an UnmarshalTypeError.
\* (faulty variant: a string for an int member is ignored)
DecodeIntLenient(v) ==
  [err |-> FALSE, val |-> IF v.t = "num" THEN v.n ELSE 0]
DecodeInt(v) ==
  IF v.t = "str" THEN [err |-> TRUE, val |-> 0]
  ELSE [err |-> FALSE, val |-> IF v.t = "num" THEN v.n ELSE 0]

\* encoding/json into a string field.
\* (variant: an absent string member is an error)
DecodeStringRequired(v) ==
  IF v.t # "str" THEN [err |-> TRUE, val |-> ""] ELSE [err |-> FALSE, val |-> v.s]
DecodeString(v) ==
  IF v.t = "num" THEN [err |-> TRUE, val |-> ""]
  ELSE [err |-> FALSE, val |-> IF v.t = "str" THEN v.s ELSE ""]

\* json.NewDecoder(r.Body).Decode(&p) on `var p Product`
Decode(body) ==
  IF body.kind # "object" THEN [err |-> TRUE, p |-> ZeroProduct]
  ELSE LET i == DecodeInt(body.id)
           n == DecodeString(body.name)
           c == DecodeInt(body.price)
       IN [err |-> i.err \/ n.err \/ c.err,
           p |-> Product(i.val, n.val, c.val)]

Methods == {"GET", "POST", "PUT"}
MethodPost == "POST"
MethodGet == "GET"
StatusCreated == 201
StatusOK == 200
StatusBadRequest == 400
StatusMethodNotAllowed == 405

\* r.Method != http.MethodPost / http.MethodGet
\* (faulty variant: no verb check)
VerbAllowedAny(method, allowed) == TRUE
VerbAllowed(method, allowed) == method = allowed

NoReq == [handler |-> "none", method |-> "", body |-> CHOOSE b \in Bodies : b.kind = "eof", decoded |-> FALSE]
\* the texts the handlers write
TextNone == ""
TextNotAllowed == "Method not allowed"
TextDecodeError == "err.Error()"
TextCreated == "Product created successfully"
TextJSON == "json"

NoResp == [status |-> 0, text |-> TextNone, products |-> <<>>]

(* --------------------------- sync.RWMutex ------------------------------ *)
\* w: a writer holds the lock (readerCount is negative while one does);
\* readers: number of read locks held.  The zero value is an unlocked mutex.
FreeRWMutex == [w |-> FALSE, readers |-> 0]

\* ps.mu.Lock() returns only when no writer and no reader holds the lock
\* (faulty variant: a Lock that excludes nobody)
CanLockUnguarded(m) == TRUE
CanLock(m) == ~m.w /\ m.readers = 0
\* ps.mu.RLock() returns only when no writer holds or waits for the lock
CanRLock(m) == ~m.w
RLocked(m) == [m EXCEPT !.readers = @ + 1]
RUnlocked(m) == [m EXCEPT !.readers = @ - 1]

(* --------------------------- construction ------------------------------ *)
\* (faulty variant: the counter starts at 0)
NewProductServiceFromZero ==
  /\ products = <<>>
  /\ nextID = 0
  /\ mu = FreeRWMutex
NewProductService ==
  /\ products = <<>>
  /\ nextID = 1
  /\ mu = FreeRWMutex

InitService ==
  /\ NewProductService
  /\ crashed = FALSE
  /\ pc = [r \in Requests |-> "idle"]
  /\ req = [r \in Requests |-> NoReq]
  /\ p = [r \in Requests |-> ZeroProduct]
  /\ newProduct = [r \in Requests |-> ZeroProduct]
  /\ psCopy = [r \in Requests |-> FreeRWMutex]
  /\ iter = [r \in Requests |-> [start |-> {}, seen |-> {}]]
  /\ out = [r \in Requests |-> <<>>]
  /\ listed = [r \in Requests |-> <<>>]
  /\ resp = [r \in Requests |-> NoResp]
  /\ lockOrder = <<>>
  /\ invoked = [r \in Requests |-> [quiet |-> FALSE, created |-> 0]]
  /\ gotID = [r \in Requests |-> 0]

(* ----------------------- createProductHandler -------------------------- *)
InCreate(r) == pc[r] \in {"cp_lock", "cp_assign", "cp_store", "cp_inc", "cp_print", "cp_unlock"}
InCritical(r) == pc[r] \in {"cp_assign", "cp_store", "cp_inc", "cp_print", "cp_unlock"}
InGetProducts(r) == pc[r] \in {"gp_copy", "gp_rlock", "gp_make", "gp_iter"}
Reading(r) == pc[r] \in {"gp_make", "gp_iter"}

\* A create that starts ends the quiet period of every GetProducts in flight.
Disturb(inv) ==
  [r \in Requests |-> IF InGetProducts(r) THEN [inv[r] EXCEPT !.quiet = FALSE] ELSE inv[r]]

\* The handler up to its first access of the service: the verb check, then
\* the decoding of the body, then the call service.CreateProduct(p), which
\* passes p by value: newProduct is a copy, p itself is not written again.
createProductHandler(r, method, body) ==
  /\ ~crashed
  /\ pc[r] = "idle"
  /\ IF ~VerbAllowed(method, MethodPost)
       THEN /\ req' = [req EXCEPT ![r] = [handler |-> "create", method |-> method, body |-> body, decoded |-> FALSE]]
            /\ resp' = [resp EXCEPT ![r] = [status |-> StatusMethodNotAllowed, text |-> TextNotAllowed, products |-> <<>>]]
            /\ pc' = [pc EXCEPT ![r] = "done"]
            /\ UNCHANGED <<p, newProduct, invoked>>
       ELSE /\ req' = [req EXCEPT ![r] = [handler |-> "create", method |-> method, body |-> body, decoded |-> TRUE]]
            /\ IF Decode(body).err
                 THEN /\ resp' = [resp EXCEPT ![r] = [status |-> StatusBadRequest, text |-> TextDecodeError, products |-> <<>>]]
                      /\ pc' = [pc EXCEPT ![r] = "done"]
                      /\ UNCHANGED <<p, newProduct, invoked>>
                 ELSE /\ p' = [p EXCEPT ![r] = Decode(body).p]
                      /\ newProduct' = [newProduct EXCEPT ![r] = Decode(body).p]
                      /\ pc' = [pc EXCEPT ![r] = "cp_lock"]
                      /\ invoked' = Disturb(invoked)
                      /\ UNCHANGED resp
  /\ UNCHANGED <<products, nextID, mu, crashed, psCopy, iter, out, listed, lockOrder, gotID>>
  /\ UNCHANGED <<storeVars, mainVars>>

(* ----------------------- ProductService.CreateProduct ------------------ *)
\* ps.mu.Lock()
CreateLock(r) ==
  /\ ~crashed
  /\ pc[r] = "cp_lock"
  /\ CanLock(mu)
  /\ mu' = [mu EXCEPT !.w = TRUE]
  /\ lockOrder' = Append(lockOrder, r)
  /\ pc' = [pc EXCEPT ![r] = "cp_assign"]
  /\ UNCHANGED <<products, nextID, crashed, req, p, psCopy, iter, out, listed, resp, invoked, newProduct, gotID>>
  /\ UNCHANGED <<storeVars, mainVars>>

\* newProduct.ID = ps.nextID
\* (faulty variant: an id supplied by the caller is kept)
AssignIDIfUnset(prod, id) == IF prod.ID # 0 THEN prod ELSE [prod EXCEPT !.ID = id]
AssignID(prod, id) == [prod EXCEPT !.ID = id]

CreateAssign(r) ==
  /\ ~crashed
  /\ pc[r] = "cp_assign"
  /\ newProduct' = [newProduct EXCEPT ![r] = AssignID(@, nextID)]
  /\ gotID' = [gotID EXCEPT ![r] = AssignID(newProduct[r], nextID).ID]
  /\ pc' = [pc EXCEPT ![r] = "cp_store"]
  /\ UNCHANGED <<products, nextID, mu, crashed, req, p, psCopy, iter, out, listed, resp, lockOrder, invoked>>
  /\ UNCHANGED <<storeVars, mainVars>>

\* m[k] = v on a Go map
\* (faulty variant: an existing entry is kept)
MapAssignKeepOld(m, k, v) ==
  [x \in (DOMAIN m) \cup {k} |-> IF x \in DOMAIN m THEN m[x] ELSE v]
MapAssign(m, k, v) == [x \in (DOMAIN m) \cup {k} |-> IF x = k THEN v ELSE m[x]]

\* ps.products[newProduct.ID] = newProduct.  A map write while another
\* goroutine ranges over the same map is a data race: the runtime may throw
\* "concurrent map iteration and map write", which ends the process.
CreateStore(r) ==
  /\ ~crashed
  /\ pc[r] = "cp_store"
  /\ \/ /\ products' = MapAssign(products, newProduct[r].ID, newProduct[r])
        /\ pc' = [pc EXCEPT ![r] = "cp_inc"]
        /\ UNCHANGED crashed
     \/ /\ \E g \in Requests : pc[g] = "gp_iter" /\ iter[g].start # {}
        /\ crashed' = TRUE
        /\ UNCHANGED <<products, pc>>
  /\ UNCHANGED <<nextID, mu, req, p, psCopy, iter, out, listed, resp, lockOrder, invoked, newProduct, gotID>>
  /\ UNCHANGED <<storeVars, mainVars>>

\* ps.nextID++
\* (faulty variant: the counter is not advanced)
IncStuck(n) == n
Inc(n) == n + 1

CreateInc(r) ==
  /\ ~crashed
  /\ pc[r] = "cp_inc"
  /\ nextID' = Inc(nextID)
  /\ pc' = [pc EXCEPT ![r] = "cp_print"]
  /\ UNCHANGED <<products, mu, crashed, req, p, psCopy, iter, out, listed, resp, lockOrder, invoked, newProduct, gotID>>
  /\ UNCHANGED <<storeVars, mainVars>>

\* fmt.Printf("Created new product: ...")
CreatePrint(r) ==
  /\ ~crashed
  /\ pc[r] = "cp_print"
  /\ pc' = [pc EXCEPT ![r] = "cp_unlock"]
  /\ UNCHANGED <<products, nextID, mu, crashed, req, p, psCopy, iter, out, listed, resp, lockOrder, invoked, newProduct, gotID>>
  /\ UNCHANGED <<storeVars, mainVars>>

\* the deferred ps.mu.Unlock() and the return of CreateProduct: newProduct
\* ends with the call, the handler goes on without the lock
CreateUnlock(r) ==
  /\ ~crashed
  /\ pc[r] = "cp_unlock"
  /\ mu' = [mu EXCEPT !.w = FALSE]
  /\ newProduct' = [newProduct EXCEPT ![r] = ZeroProduct]
  /\ pc' = [pc EXCEPT ![r] = "ch_write"]
  /\ UNCHANGED <<products, nextID, crashed, req, p, gotID, psCopy, iter, out, listed, resp, lockOrder, invoked>>
  /\ UNCHANGED <<storeVars, mainVars>>

CreateProduct(r) ==
  \/ CreateLock(r)
  \/ CreateAssign(r)
  \/ CreateStore(r)
  \/ CreateInc(r)
  \/ CreatePrint(r)
  \/ CreateUnlock(r)

\* w.WriteHeader(http.StatusCreated); w.Write([]byte("Product created
\* successfully")): CreateProduct returned nothing, the text is fixed.
\* (variant: the response carries the record with its identity)
CreatedResponseWithRecord(prod) ==
  [status |-> StatusCreated, text |-> TextJSON, products |-> <<prod>>]
CreatedResponse(prod) ==
  [status |-> StatusCreated, text |-> TextCreated, products |-> <<>>]

\* the handler after service.CreateProduct(p) has returned
CreateRespond(r) ==
  /\ ~crashed
  /\ pc[r] = "ch_write"
  /\ resp' = [resp EXCEPT ![r] = CreatedResponse(p[r])]
  /\ pc' = [pc EXCEPT ![r] = "done"]
  /\ UNCHANGED <<products, nextID, mu, crashed, req, p, newProduct, gotID, psCopy, iter, out, listed, lockOrder, invoked>>
  /\ UNCHANGED <<storeVars, mainVars>>

(* ----------------------- getProductsHandler ---------------------------- *)
Created == Cardinality({r \in Requests : pc[r] = "ch_write" \/ resp[r].status = StatusCreated})

\* The handler up to the call of GetProducts: the verb check.
getProductsHandler(r, method) ==
  /\ ~crashed
  /\ pc[r] = "idle"
  /\ req' = [req EXCEPT ![r] = [handler |-> "list", method |-> method, body |-> NoReq.body, decoded |-> FALSE]]
  /\ IF ~VerbAllowed(method, MethodGet)
       THEN /\ resp' = [resp EXCEPT ![r] = [status |-> StatusMethodNotAllowed, text |-> TextNotAllowed, products |-> <<>>]]
            /\ pc' = [pc EXCEPT ![r] = "done"]
            /\ UNCHANGED invoked
       ELSE /\ pc' = [pc EXCEPT ![r] = "gp_copy"]
            /\ invoked' = [invoked EXCEPT ![r] =
                 [quiet |-> \A c \in Requests : ~InCreate(c), created |-> Created]]
            /\ UNCHANGED resp
  /\ UNCHANGED <<products, nextID, mu, crashed, p, psCopy, iter, out, listed, lockOrder, newProduct, gotID>>
  /\ UNCHANGED <<storeVars, mainVars>>

(* ----------------------- ProductService.GetProducts -------------------- *)
\* The value receiver: service.GetProducts() copies *service, the RWMutex
\* included, in whatever state it is; the map header in the copy refers to
\* the same map.
GetCopy(r) ==
  /\ ~crashed
  /\ pc[r] = "gp_copy"
  /\ psCopy' = [psCopy EXCEPT ![r] = mu]
  /\ pc' = [pc EXCEPT ![r] = "gp_rlock"]
  /\ UNCHANGED <<products, nextID, mu, crashed, req, p, iter, out, listed, resp, lockOrder, invoked, newProduct, gotID>>
  /\ UNCHANGED <<storeVars, mainVars>>

\* ps.mu.RLock() on the copy: nobody ever unlocks the copy, so a copy taken
\* while a writer held the lock blocks here for ever.
GetRLock(r) ==
  /\ ~crashed
  /\ pc[r] = "gp_rlock"
  /\ CanRLock(psCopy[r])
  /\ psCopy' = [psCopy EXCEPT ![r] = RLocked(@)]
  /\ pc' = [pc EXCEPT ![r] = "gp_make"]
  /\ UNCHANGED <<products, nextID, mu, crashed, req, p, iter, out, listed, resp, lockOrder, invoked, newProduct, gotID>>
  /\ UNCHANGED <<storeVars, mainVars>>

\* A struct assignment dst = src copies the value: the record then lives in
\* dst's own storage, src's storage is not shared.
\* (faulty variant: dst shares the storage of src)
ValueCopyAliased(dst, src) == src
ValueCopy(dst, src) == dst

\* storage of a Product: element i of a slice's backing array, or the entry
\* of ps.products under key k
ElemAddr(i) == [in |-> "slice", at |-> i]
EntryAddr(k) == [in |-> "map", at |-> k]
\* the Product found at address a by the holder of request r's slice
LoadElem(r, a) ==
  IF a.in = "slice" THEN out[r][a.at]
  ELSE IF a.at \in DOMAIN products THEN products[a.at] ELSE ZeroProduct
\* the records read through the slice GetProducts handed to request r
Values(r) == [i \in DOMAIN listed[r] |-> LoadElem(r, listed[r][i])]

\* the keys whose entry a CreateProduct is writing now (line 45)
BeingWritten == {newProduct[c].ID : c \in {x \in Requests : pc[x] = "cp_store"}}
\* The entries the range finds when it begins, read without ps.mu: those of
\* the map, and an entry being written at line 45 if the write has counted
\* its key already.
RangeStarts == {DOMAIN products, (DOMAIN products) \cup BeingWritten}

\* products := make([]Product, 0, len(ps.products)) and the start of
\* `for _, p := range ps.products`: the entries found now will be
\* produced; over an empty map the loop ends at once.
GetMake(r) ==
  /\ ~crashed
  /\ pc[r] = "gp_make"
  /\ \E st \in RangeStarts : iter' = [iter EXCEPT ![r] = [start |-> st, seen |-> {}]]
  /\ out' = [out EXCEPT ![r] = <<>>]
  /\ listed' = [listed EXCEPT ![r] = <<>>]
  /\ pc' = [pc EXCEPT ![r] = "gp_iter"]
  /\ UNCHANGED <<products, nextID, mu, crashed, req, p, psCopy, resp, lockOrder, invoked, newProduct, gotID>>
  /\ UNCHANGED <<storeVars, mainVars>>

IDs(s) == {s[i].ID : i \in DOMAIN s}

\* A string header read while it is being written can have the old (nil)
\* data pointer with the new length: a value that cannot be read.
SplitString == "<nil data, new length>"
TornString(old, new) == {old, new} \cup (IF old = "" /\ new # "" THEN {SplitString} ELSE {})
\* What an unguarded read of a record can give while the record is being
\* written: each word as it was or as it will be.
Torn(old, new) ==
  {Product(i, n, q) : i \in {old.ID, new.ID}, n \in TornString(old.Name, new.Name),
                      q \in {old.Price, new.Price}}
\* The values the range loop can read for key k without ps.mu: the entry,
\* or for an entry being written anything from the zeroed slot to the record.
SlotValues(k) ==
  (IF k \in DOMAIN products THEN {products[k]} ELSE {}) \cup
  UNION {Torn(ZeroProduct, newProduct[c]) :
           c \in {x \in Requests : pc[x] = "cp_store" /\ newProduct[x].ID = k}}

\* One iteration of the range loop: products = append(products, p), in the
\* map's unspecified order.  An entry created during the iteration may be
\* produced or skipped, and one being written may be read half written.
GetNext(r) ==
  /\ ~crashed
  /\ pc[r] = "gp_iter"
  /\ iter[r].start # {}
  /\ \E k \in ((DOMAIN products) \cup BeingWritten) \ iter[r].seen :
       \E v \in SlotValues(k) :
         /\ iter' = [iter EXCEPT ![r].seen = @ \cup {k}]
         /\ out' = [out EXCEPT ![r] = Append(@, v)]
         /\ listed' = [listed EXCEPT ![r] =
                         Append(@, ValueCopy(ElemAddr(Len(out[r]) + 1), EntryAddr(k)))]
  /\ UNCHANGED <<products, nextID, mu, crashed, pc, req, p, psCopy, resp, lockOrder, invoked, newProduct, gotID>>
  /\ UNCHANGED <<storeVars, mainVars>>

\* json.NewEncoder(w).Encode(products): 200 and the records, unless reading
\* a record panics; net/http recovers the panic and the request ends with
\* nothing written.
Encodable(s) == \A i \in DOMAIN s : s[i].Name # SplitString
Encode(s) ==
  IF Encodable(s) THEN [status |-> StatusOK, text |-> TextJSON, products |-> s] ELSE NoResp

\* The end of the loop, the deferred ps.mu.RUnlock() on the copy, the return
\* and the handler's json.NewEncoder(w).Encode(products).
GetReturn(r) ==
  /\ ~crashed
  /\ pc[r] = "gp_iter"
  /\ iter[r].start \subseteq iter[r].seen
  /\ psCopy' = [psCopy EXCEPT ![r] = RUnlocked(@)]
  /\ resp' = [resp EXCEPT ![r] = Encode(Values(r))]
  /\ pc' = [pc EXCEPT ![r] = "done"]
  /\ UNCHANGED <<products, nextID, mu, crashed, req, p, iter, out, listed, lockOrder, invoked, newProduct, gotID>>
  /\ UNCHANGED <<storeVars, mainVars>>

GetProducts(r) ==
  \/ GetCopy(r)
  \/ GetRLock(r)
  \/ GetMake(r)
  \/ GetNext(r)
  \/ GetReturn(r)

(* ----------------------- the service as a whole ------------------------ *)
\* The transport invokes a handler once per inbound request, concurrently.
ServeCreate(R, B) == \E r \in R, m \in Methods, b \in B : createProductHandler(r, m, b)
ServeList(R) == \E r \in R, m \in Methods : getProductsHandler(r, m)
StepCreate == \E r \in Requests : CreateProduct(r)
StepRespond == \E r \in Requests : CreateRespond(r)
StepGet == \E r \in Requests : GetProducts(r)

\* Concurrency of the service: every request, a few bodies.
NextService ==
  \/ ServeCreate(Requests, FewBodies)
  \/ ServeList(Requests)
  \/ StepCreate
  \/ StepRespond
  \/ StepGet

\* The handlers on every body: fewer requests.
NextHandlers ==
  \/ ServeCreate(Clients, Bodies)
  \/ ServeList(Clients)
  \/ StepCreate
  \/ StepRespond
  \/ StepGet

(* ------------------------------ bare Store ----------------------------- *)
\* type Item struct { Name string; Price int }
Item(name, price) == [Name |-> name, Price |-> price]
ZeroItem == Item("", 0)

\* the names and prices the tasks use
Names == {"Apple", "Banana"}
LookupNames == Names \cup {"Orange"}
Prices == {1, 2}

\* the *Item results: nil, or a pointer to GetItem's own local `item`
Nil == <<>>
Ref(item) == <<item>>
\* the error results
NoError == ""
ErrNotFound == "item not found"

NoCall == [op |-> "none", name |-> "", price |-> 0]
NoRet == [err |-> NoError, item |-> Nil]

\* s.mu.Lock() returns only when nobody holds the Mutex
\* (faulty variant: a Lock that excludes nobody)
MutexFreeAlways(held) == TRUE
MutexFree(held) == ~held

\* the deferred s.mu.Unlock() runs on every return of GetItem, whatever the
\* error returned: is the Mutex still held after the return?
\* (faulty variant: the not-found return leaves it locked)
HeldAfterFoundOnly(err) == err = ErrNotFound
HeldAfterGetItem(err) == FALSE

\* NewStore(): an empty map and the zero (unlocked) Mutex
NewStore ==
  /\ items = <<>>
  /\ smu = FALSE

InitStore ==
  /\ NewStore
  /\ tpc = [t \in Tasks |-> "idle"]
  /\ call = [t \in Tasks |-> NoCall]
  /\ ret = [t \in Tasks |-> NoRet]
  /\ ptr = [t \in Tasks |-> Nil]
  /\ calls = 0
  /\ lastPut = <<>>
  /\ seen = [t \in Tasks |-> Nil]
  /\ took = <<>>

\* item, ok := m[name] on a Go map: the zero value and false when absent
\* (faulty variant: an absent key is reported present, with the zero value)
MapLookupAlwaysOk(m, k) ==
  [ok |-> TRUE, v |-> IF k \in DOMAIN m THEN m[k] ELSE ZeroItem]
MapLookup(m, k) ==
  IF k \in DOMAIN m THEN [ok |-> TRUE, v |-> m[k]] ELSE [ok |-> FALSE, v |-> ZeroItem]

\* A task calls store.AddItem(item).
CallAddItem(t, name, price) ==
  /\ tpc[t] = "idle"
  /\ calls < MaxCalls
  /\ calls' = calls + 1
  /\ call' = [call EXCEPT ![t] = [op |-> "add", name |-> name, price |-> price]]
  /\ tpc' = [tpc EXCEPT ![t] = "add_lock"]
  /\ UNCHANGED <<items, smu, ret, ptr, lastPut, seen, took>>
  /\ UNCHANGED <<svcVars, mainVars>>

\* s.mu.Lock() in AddItem
AddLock(t) ==
  /\ tpc[t] = "add_lock"
  /\ MutexFree(smu)
  /\ smu' = TRUE
  /\ took' = [n \in (DOMAIN took) \cup {call[t].name} |->
                IF n = call[t].name THEN Item(call[t].name, call[t].price) ELSE took[n]]
  /\ tpc' = [tpc EXCEPT ![t] = "add_store"]
  /\ UNCHANGED <<items, call, ret, ptr, calls, lastPut, seen>>
  /\ UNCHANGED <<svcVars, mainVars>>

\* s.items[item.Name] = item
AddStore(t) ==
  /\ tpc[t] = "add_store"
  /\ LET item == Item(call[t].name, call[t].price)
     IN /\ items' = MapAssign(items, item.Name, item)
        /\ lastPut' = [n \in (DOMAIN lastPut) \cup {call[t].name} |->
                         IF n = call[t].name THEN item ELSE lastPut[n]]
  /\ tpc' = [tpc EXCEPT ![t] = "add_unlock"]
  /\ UNCHANGED <<smu, call, ret, ptr, calls, seen, took>>
  /\ UNCHANGED <<svcVars, mainVars>>

\* the deferred s.mu.Unlock() and the return of AddItem
AddUnlock(t) ==
  /\ tpc[t] = "add_unlock"
  /\ smu' = FALSE
  /\ call' = [call EXCEPT ![t] = NoCall]
  /\ tpc' = [tpc EXCEPT ![t] = "idle"]
  /\ UNCHANGED <<items, ret, ptr, calls, lastPut, seen, took>>
  /\ UNCHANGED <<svcVars, mainVars>>

AddItem(t) == AddLock(t) \/ AddStore(t) \/ AddUnlock(t)

\* A task calls store.GetItem(name).
CallGetItem(t, name) ==
  /\ tpc[t] = "idle"
  /\ calls < MaxCalls
  /\ calls' = calls + 1
  /\ call' = [call EXCEPT ![t] = [op |-> "get", name |-> name, price |-> 0]]
  /\ ret' = [ret EXCEPT ![t] = NoRet]
  /\ ptr' = [ptr EXCEPT ![t] = Nil]
  /\ seen' = [seen EXCEPT ![t] = Nil]
  /\ tpc' = [tpc EXCEPT ![t] = "get_lock"]
  /\ UNCHANGED <<items, smu, lastPut, took>>
  /\ UNCHANGED <<svcVars, mainVars>>

\* s.mu.Lock() in GetItem
GetItemLock(t) ==
  /\ tpc[t] = "get_lock"
  /\ MutexFree(smu)
  /\ smu' = TRUE
  /\ tpc' = [tpc EXCEPT ![t] = "get_lookup"]
  /\ UNCHANGED <<items, call, ret, ptr, calls, lastPut, seen, took>>
  /\ UNCHANGED <<svcVars, mainVars>>

\* storage of an Item: the local variable `item` of task t's GetItem call,
\* or the entry of s.items under a name
LocalAddr(t) == [in |-> "item", at |-> t]
ItemEntryAddr(n) == [in |-> "map", at |-> n]
\* the Item found at address a
Load(a) ==
  IF a.in = "item" THEN ret[a.at].item[1]
  ELSE IF a.at \in DOMAIN items THEN items[a.at] ELSE ZeroItem

\* item, ok := s.items[name]; if !ok { return errors.New(...), nil };
\* return nil, &item
GetItemLookup(t) ==
  /\ tpc[t] = "get_lookup"
  /\ LET l == MapLookup(items, call[t].name)
     IN /\ ret' = [ret EXCEPT ![t] =
                     IF ~l.ok THEN [err |-> ErrNotFound, item |-> Nil]
                     ELSE [err |-> NoError, item |-> Ref(l.v)]]
        /\ ptr' = [ptr EXCEPT ![t] =
                     IF ~l.ok THEN Nil
                     ELSE Ref(ValueCopy(LocalAddr(t), ItemEntryAddr(call[t].name)))]
  /\ seen' = [seen EXCEPT ![t] =
                IF call[t].name \in DOMAIN lastPut THEN Ref(lastPut[call[t].name]) ELSE Nil]
  /\ tpc' = [tpc EXCEPT ![t] = "get_unlock"]
  /\ UNCHANGED <<items, smu, call, calls, lastPut, took>>
  /\ UNCHANGED <<svcVars, mainVars>>

\* the deferred s.mu.Unlock() and the return of GetItem
GetItemUnlock(t) ==
  /\ tpc[t] = "get_unlock"
  /\ smu' = HeldAfterGetItem(ret[t].err)
  /\ tpc' = [tpc EXCEPT ![t] = "idle"]
  /\ UNCHANGED <<items, call, ret, ptr, calls, lastPut, seen, took>>
  /\ UNCHANGED <<svcVars, mainVars>>

GetItem(t) == GetItemLock(t) \/ GetItemLookup(t) \/ GetItemUnlock(t)

StartAdd == \E t \in Tasks, n \in Names, c \in Prices : CallAddItem(t, n, c)
StartGet == \E t \in Tasks, n \in LookupNames : CallGetItem(t, n)
StepAdd == \E t \in Tasks : AddItem(t)
StepGetItem == \E t \in Tasks : GetItem(t)

NextStore == StartAdd \/ StartGet \/ StepAdd \/ StepGetItem

\* GetItem has returned to task t
Returned(t) == tpc[t] = "idle" /\ call[t].op = "get"

(* ------------------------ callers holding results --------------------- *)
\* the price a caller writes into a record it was handed
CallerPrices == {99}

\* A task writes retrievedItem.Price through the pointer GetItem returned:
\* the write goes to the storage the pointer refers to.
MutateItem(t, price) ==
  /\ Returned(t)
  /\ ptr[t] # Nil
  /\ Load(ptr[t][1]).Price # price
  /\ IF ptr[t][1].in = "item"
       THEN /\ ret' = [ret EXCEPT ![ptr[t][1].at].item = Ref([@[1] EXCEPT !.Price = price])]
            /\ UNCHANGED items
       ELSE /\ items' = [items EXCEPT ![ptr[t][1].at].Price = price]
            /\ UNCHANGED ret
  /\ UNCHANGED <<smu, tpc, call, ptr, calls, lastPut, seen, took>>
  /\ UNCHANGED <<svcVars, mainVars>>

\* A caller writes products[i].Price in the slice GetProducts returned: the
\* write goes to the storage of element i.
MutateListed(r, i, price) ==
  /\ ~crashed
  /\ pc[r] = "done"
  /\ i \in DOMAIN listed[r]
  /\ resp[r].status = StatusOK
  /\ Values(r)[i].Price # price
  /\ IF listed[r][i].in = "slice"
       THEN /\ out' = [out EXCEPT ![r][listed[r][i].at].Price = price]
            /\ UNCHANGED products
       ELSE /\ listed[r][i].at \in DOMAIN products
            /\ products' = [products EXCEPT ![listed[r][i].at].Price = price]
            /\ UNCHANGED out
  /\ UNCHANGED <<nextID, mu, crashed, pc, req, p, psCopy, iter, listed, resp, lockOrder, invoked, newProduct, gotID>>
  /\ UNCHANGED <<storeVars, mainVars>>

CallerWritesItem == \E t \in Tasks, c \in CallerPrices : MutateItem(t, c)
CallerWritesListed ==
  \E r \in Requests, i \in 1..NumRequests, c \in CallerPrices : MutateListed(r, i, c)

(* ------------------------------- main ---------------------------------- *)
Pattern == "/products"

\* http.HandleFunc(pattern, handler) on the DefaultServeMux: registering a
\* pattern that is already registered panics.
HandleFunc(m, pattern, handler) ==
  IF pattern \in DOMAIN m
    THEN [panic |-> TRUE, mux |-> m]
    ELSE [panic |-> FALSE,
          mux |-> [x \in (DOMAIN m) \cup {pattern} |-> IF x = pattern THEN handler ELSE m[x]]]

\* main, one statement at a time: the two http.HandleFunc calls on the same
\* path, then http.ListenAndServe.  A panic ends the program.
main ==
  /\ mainPc \in {"handle_create", "handle_list", "listen"}
  /\ IF mainPc = "listen"
       THEN /\ mainPc' = "serving"
            /\ UNCHANGED mux
       ELSE LET h == HandleFunc(mux, Pattern,
                       IF mainPc = "handle_create" THEN "createProductHandler"
                                                   ELSE "getProductsHandler")
            IN IF h.panic
                 THEN /\ mainPc' = "panicked"
                      /\ UNCHANGED mux
                 ELSE /\ mux' = h.mux
                      /\ mainPc' = IF mainPc = "handle_create" THEN "handle_list" ELSE "listen"
  /\ UNCHANGED <<svcVars, storeVars>>

\* main after `productService := NewProductService()`: about to register
\* the first handler on an empty DefaultServeMux
InitMain ==
  /\ mainPc = "handle_create"
  /\ mux = <<>>

Init == InitService /\ InitStore /\ InitMain

Spec == Init /\ [][NextService]_vars
SpecHandlers == Init /\ [][NextHandlers]_vars
SpecStore == Init /\ [][NextStore]_vars

\* The programs of the repository, one run at a time: main of the service;
\* the service and its handlers called directly, with callers that write
\* into what they were handed; the bare Store likewise.
MainAtStart == mainPc = "handle_create"
ServiceAtStart == \A r \in Requests : pc[r] = "idle"
StoreAtStart == calls = 0

NextPrograms ==
  \/ /\ ServiceAtStart /\ StoreAtStart
     /\ main
  \/ /\ MainAtStart /\ StoreAtStart
     /\ \/ ServeCreate(Requests, PlainBodies)
        \/ ServeList(Requests)
        \/ StepCreate
        \/ StepRespond
        \/ StepGet
        \/ CallerWritesListed
  \/ /\ MainAtStart /\ ServiceAtStart
     /\ \/ NextStore
        \/ CallerWritesItem

SpecPrograms == Init /\ [][NextPrograms]_vars

\* The Go scheduler runs every goroutine that can take a step.
Fairness ==
  \A r \in Requests :
    WF_vars(CreateProduct(r)) /\ WF_vars(CreateRespond(r)) /\ WF_vars(GetProducts(r))
FairSpec == Spec /\ Fairness

(* ------------------------------ claims --------------------------------- *)
\* CreateProduct of request r has read ps.nextID into newProduct.ID
Assigned(r) ==
  pc[r] \in {"cp_store", "cp_inc", "cp_print", "cp_unlock", "ch_write"} \/ resp[r].status = StatusCreated

\* C1: the identities CreateProduct assigns are pairwise different, and the
\* call that took the lock i-th (after i-1 others) is assigned identity i.
C1_UniqueIdentities ==
  /\ \A i \in DOMAIN lockOrder :
       Assigned(lockOrder[i]) => gotID[lockOrder[i]] = 1 + (i - 1)
  /\ \A a, b \in Requests :
       a # b /\ Assigned(a) /\ Assigned(b) => gotID[a] # gotID[b]

\* Three CreateProduct calls overlap: two hold identities 1 and 2, the third
\* still waits for the lock.
C1_Witness ==
  \E a, b, c \in Requests :
    /\ resp[a].status = StatusCreated /\ gotID[a] = 1
    /\ InCritical(b) /\ Assigned(b) /\ newProduct[b].ID = 2 /\ gotID[b] = 2
    /\ pc[c] = "cp_lock"

\* C2: what GetProducts returns is the content of the map at one instant,
\* so its identities are exactly 1..k for some k.
C2_ListIsSnapshot ==
  \A r \in Requests :
    resp[r].status = StatusOK =>
      \E k \in 0..NumRequests : IDs(resp[r].products) = 1..k

\* C3: GetProducts never reads the map while a CreateProduct on the same
\* service is inside its critical section.
C3_GuardHeldOnAccess ==
  \A g \in Requests :
    Reading(g) => \A c \in Requests : ~InCritical(c)

\* C4: every CreateProduct and GetProducts that was started returns (unless
\* the runtime ended the process).
C4_EveryOperationReturns ==
  \A r \in Requests :
    (InCreate(r) \/ InGetProducts(r)) ~> (pc[r] = "done" \/ crashed)

\* C5: a GetProducts invoked after N CreateProduct calls have returned, with
\* no CreateProduct in progress then or started before it returns, returns
\* exactly N records, with identities 1..N.
C5_ListAfterCreates ==
  \A r \in Requests :
    resp[r].status = StatusOK /\ invoked[r].quiet =>
      /\ Len(resp[r].products) = invoked[r].created
      /\ IDs(resp[r].products) = 1..invoked[r].created

\* GetProducts returned two records after two concurrent creates.
C5_Witness ==
  \E r \in Requests :
    /\ resp[r].status = StatusOK
    /\ invoked[r].quiet
    /\ invoked[r].created = 2
    /\ lockOrder # <<>> /\ lockOrder[1] > lockOrder[2]

\* the requests whose CreateProduct has taken the lock
Locked == {lockOrder[i] : i \in DOMAIN lockOrder}
\* the position of request r in the lock order
Pos(r) == CHOOSE i \in DOMAIN lockOrder : lockOrder[i] = r

\* shapes of request bodies, stated on the JSON text
WellFormed(b) ==
  /\ b.kind = "object"
  /\ b.id.t \in {"absent", "num"}
  /\ b.name.t \in {"absent", "str"}
  /\ b.price.t \in {"absent", "num"}
MissingRequired(b) == b.name.t = "absent" \/ b.price.t = "absent"
Undecodable(b) ==
  \/ b.kind \in {"eof", "syntax"}
  \/ b.id.t = "str" \/ b.name.t = "num" \/ b.price.t = "str"

NonPostCreate(r) == req[r].handler = "create" /\ req[r].method # MethodPost
PostCreate(r) == req[r].handler = "create" /\ req[r].method = MethodPost

\* the step in which request r enters the create handler
EntersCreate(r) == pc[r] = "idle" /\ req'[r].handler = "create"

C6_Rejected ==
  \A r \in Requests :
    NonPostCreate(r) =>
      /\ pc[r] = "done"
      /\ resp[r].status = StatusMethodNotAllowed
      /\ ~req[r].decoded
      /\ r \notin Locked
C6_NoEffect ==
  \A r \in Requests :
    EntersCreate(r) /\ req'[r].method # MethodPost =>
      products' = products /\ nextID' = nextID

\* C6: the create handler called with a verb other than POST answers 405,
\* does not decode the body, never calls CreateProduct and leaves products
\* and nextID as they were.
C6_WrongVerbRejected == []C6_Rejected /\ [][C6_NoEffect]_vars

\* A PUT carrying a body that a POST would have stored was answered 405,
\* next to a POST that was stored.
C6_Witness ==
  \E r, c \in Requests :
    /\ NonPostCreate(r) /\ req[r].method = "PUT"
    /\ WellFormed(req[r].body) /\ ~MissingRequired(req[r].body)
    /\ resp[r].status = StatusMethodNotAllowed
    /\ resp[c].status = StatusCreated
    /\ nextID = 2

PostMissing(r) ==
  PostCreate(r) /\ WellFormed(req[r].body) /\ MissingRequired(req[r].body)

\* C7 as claimed: a POST whose well-formed body lacks name or price is
\* answered 400 and never reaches the store.
C7_MissingFieldsRejected ==
  \A r \in Requests :
    PostMissing(r) /\ pc[r] = "done" =>
      resp[r].status = StatusBadRequest /\ r \notin Locked

\* C7 amended: a POST whose well-formed body lacks name or price is decoded
\* with the zero value for each missing member, is never answered 400, and
\* ends with 201 and one record, holding those values, stored under the
\* identity CreateProduct assigned.
C7_MissingFieldsStored ==
  \A r \in Requests :
    PostMissing(r) =>
      /\ resp[r].status # StatusBadRequest
      /\ pc[r] # "idle"
      /\ pc[r] = "done" =>
           /\ resp[r].status = StatusCreated
           /\ r \in Locked
           /\ Pos(r) \in DOMAIN products
           /\ products[Pos(r)] =
                Product(Pos(r),
                        IF req[r].body.name.t = "absent" THEN "" ELSE req[r].body.name.s,
                        IF req[r].body.price.t = "absent" THEN 0 ELSE req[r].body.price.n)

\* POST {} was answered 201 and stored as {1, "", 0}.
C7_Witness ==
  \E r \in Requests :
    /\ PostMissing(r)
    /\ req[r].body.name.t = "absent" /\ req[r].body.price.t = "absent"
    /\ req[r].body.id.t = "absent"
    /\ resp[r].status = StatusCreated
    /\ 1 \in DOMAIN products /\ products[1] = Product(1, "", 0)

PostUndecodable(r) == PostCreate(r) /\ Undecodable(req[r].body)

C8_Rejected ==
  /\ \A r \in Requests :
       PostUndecodable(r) =>
         /\ pc[r] = "done"
         /\ resp[r].status = StatusBadRequest
         /\ r \notin Locked
  /\ nextID <= 1 + Len(lockOrder)
C8_NoEffect ==
  \A r \in Requests :
    EntersCreate(r) /\ req'[r].method = MethodPost /\ Undecodable(req'[r].body) =>
      products' = products /\ nextID' = nextID

\* C8: a POST whose body cannot be decoded is answered 400, never calls
\* CreateProduct and leaves products and nextID as they were; nextID counts
\* only the creates that took the lock.
C8_DecodeFailureRejected == []C8_Rejected /\ [][C8_NoEffect]_vars

\* A POST with a string for price was answered 400; the create beside it got
\* identity 1 and nextID is 2.
C8_Witness ==
  \E r, c \in Requests :
    /\ PostUndecodable(r) /\ req[r].body.price.t = "str"
    /\ resp[r].status = StatusBadRequest
    /\ resp[c].status = StatusCreated /\ gotID[c] = 1
    /\ nextID = 2

\* C9: GetItem(name) after an AddItem(item) with item.Name = name returns no
\* error and a record with the Name and Price of the last such AddItem,
\* whatever was stored under other names.
C9_GetAfterAdd ==
  \A t \in Tasks :
    Returned(t) /\ seen[t] # Nil =>
      /\ ret[t].err = NoError
      /\ ret[t].item # Nil
      /\ ret[t].item[1].Name = call[t].name
      /\ ret[t].item[1].Name = seen[t][1].Name
      /\ ret[t].item[1].Price = seen[t][1].Price

\* GetItem returned the record stored under its name at price 2, with
\* another name stored as well.
C9_Witness ==
  \E t \in Tasks :
    /\ Returned(t)
    /\ seen[t] # Nil /\ seen[t][1].Price = 2
    /\ ret[t].err = NoError
    /\ \E n \in DOMAIN items : n = call[t].name /\ items[n].Price = 2
    /\ \E n \in DOMAIN items : n # call[t].name

\* C10: GetItem returns the not-found error exactly when the name was absent
\* when it looked it up, and then the record is nil; otherwise the error is
\* nil and the record is not.
C10_NotFound ==
  \A t \in Tasks :
    Returned(t) \/ tpc[t] = "get_unlock" =>
      /\ ret[t].err \in {NoError, ErrNotFound}
      /\ ret[t].err = ErrNotFound <=> seen[t] = Nil
      /\ ret[t].err = ErrNotFound <=> ret[t].item = Nil

\* GetItem("Orange") returned not-found and nil from a store holding Apple.
C10_Witness ==
  \E t \in Tasks :
    /\ Returned(t)
    /\ call[t].name = "Orange"
    /\ ret[t].err = ErrNotFound /\ ret[t].item = Nil
    /\ "Apple" \in DOMAIN items

\* the record task t reads through the pointer it holds
HeldItem(t) == Load(ptr[t][1])
\* the tasks whose held record changes in a step, the requests whose list does
ItemChanged == {t \in Tasks : ptr[t] # Nil /\ ptr'[t] = ptr[t] /\ HeldItem(t)' # HeldItem(t)}
ListChanged == {r \in Requests : pc[r] = "done" /\ pc'[r] = "done" /\ Values(r)' # Values(r)}

C11_Step ==
  \* a step in which no operation of a store moves is a caller's write: it
  \* leaves the store as it was and changes nobody else's record
  /\ tpc' = tpc /\ calls' = calls => items' = items /\ Cardinality(ItemChanged) <= 1
  /\ pc' = pc => products' = products /\ nextID' = nextID /\ Cardinality(ListChanged) <= 1
  \* a step of an operation of a store changes no record already handed out
  /\ tpc' # tpc => ItemChanged = {}
  /\ pc' # pc => ListChanged = {}

\* C11: a caller's write into a record handed out by GetItem or GetProducts
\* leaves the store's map and every other caller's record as they were, so
\* later calls return what they would have; and a step of AddItem, GetItem,
\* CreateProduct or GetProducts leaves every record already handed out as it
\* was.
C11_CopyIsolation == [][C11_Step]_vars

\* A task has written price 99 through the pointer it got; the store still
\* holds the price that was added, and another task's later GetItem of the
\* same name returned that price.
C11_Witness ==
  \E t, u \in Tasks :
    /\ t # u
    /\ Returned(t) /\ ptr[t] # Nil /\ HeldItem(t).Price = 99
    /\ call[t].name \in DOMAIN items /\ items[call[t].name].Price = 2
    /\ Returned(u) /\ call[u].name = call[t].name
    /\ ptr[u] # Nil /\ HeldItem(u) = items[call[t].name]

\* C12 as claimed: the success outcome of the create handler carries the
\* identity CreateProduct assigned.
C12_IdentityReturned ==
  \A r \in Requests :
    resp[r].status = StatusCreated => gotID[r] \in IDs(resp[r].products)

\* C12 amended: CreateProduct returns nothing and the success outcome is 201
\* with the fixed confirmation text and no record; the identity assigned (1
\* for the first create, 2 for the second, in lock order) is found only in
\* the record stored in products, while the handler's own record keeps the
\* id decoded from the body.
C12_PlainConfirmation ==
  \A r \in Requests :
    resp[r].status = StatusCreated =>
      /\ resp[r].text = TextCreated
      /\ resp[r].products = <<>>
      /\ r \in Locked
      /\ gotID[r] = Pos(r)
      /\ gotID[r] \in DOMAIN products
      /\ products[gotID[r]] = [p[r] EXCEPT !.ID = gotID[r]]
      /\ p[r] = Decode(req[r].body).p

\* Two creates on a fresh service were answered with the plain text; the
\* stored records hold identities 1 and 2, the handlers' records hold 0.
C12_Witness ==
  \E a, b \in Requests :
    /\ resp[a].status = StatusCreated /\ resp[a].text = TextCreated /\ gotID[a] = 1
    /\ resp[b].status = StatusCreated /\ resp[b].text = TextCreated /\ gotID[b] = 2
    /\ p[a].ID = 0 /\ p[b].ID = 0
    /\ products[1].ID = 1 /\ products[2].ID = 2
    /\ DOMAIN products = {1, 2}

\* C13: an operation that is at an I/O step (CreateProduct's fmt.Printf) does
\* not hold the lock of the service.
C13_NoIOUnderLock ==
  \A r \in Requests : pc[r] = "cp_print" => ~mu.w

ListRequest(r) == req[r].handler = "list"

\* a record as the store holds it
Stored(v) == v.ID \in DOMAIN products /\ products[v.ID] = v

\* C14 (the steps): no step of the list handler or of its GetProducts
\* changes products, nextID or the lock of the service.
C14_FrameStep ==
  \A r \in Requests :
    /\ req'[r].handler = "list"
    /\ pc'[r] # pc[r] \/ out'[r] # out[r] \/ psCopy'[r] # psCopy[r]
    => products' = products /\ nextID' = nextID /\ mu' = mu

C14_Frame == [][C14_FrameStep]_vars

\* C14 (the outcome): with a verb other than GET the list handler answers
\* 405 without calling GetProducts; with GET, when it has returned, it has
\* answered 200 with the records GetProducts collected, each of them a
\* record of the store.
C14_ListHandlerReadsOnly ==
  \A r \in Requests :
    ListRequest(r) =>
      /\ req[r].method # MethodGet =>
           /\ pc[r] = "done"
           /\ resp[r].status = StatusMethodNotAllowed
           /\ out[r] = <<>> /\ iter[r].seen = {} /\ psCopy[r] = FreeRWMutex
      /\ req[r].method = MethodGet /\ pc[r] = "done" =>
           /\ resp[r].status = StatusOK
           /\ resp[r].products = out[r]
           /\ \A i \in DOMAIN resp[r].products : Stored(resp[r].products[i])

\* C15: when no operation is in progress on a store, its guard is free: the
\* Mutex of the bare Store, the RWMutex of the service, and the copy of it
\* that a finished GetProducts had locked.
C15_GuardFreeWhenIdle ==
  /\ (\A t \in Tasks : tpc[t] = "idle") => ~smu
  /\ (\A r \in Requests : ~InCreate(r) /\ ~InGetProducts(r)) => mu = FreeRWMutex
  /\ \A r \in Requests : pc[r] = "done" => psCopy[r].readers = 0

\* GetItem returned not-found, no task is inside the Store and the Mutex is
\* free.
C15_Witness ==
  /\ \E t \in Tasks : Returned(t) /\ ret[t].err = ErrNotFound
  /\ \A t \in Tasks : tpc[t] = "idle"
  /\ ~smu
  /\ items # <<>>

\* the handlers main has registered
Registered == {mux[x] : x \in DOMAIN mux}

\* C16: main's startup does not fail: with both handlers registered on the
\* path it goes on to listen and serve.
C16_ServiceStarts ==
  /\ mainPc # "panicked"
  /\ mainPc \in {"listen", "serving"} =>
       Registered = {"createProductHandler", "getProductsHandler"}

\* what encoding/json leaves in a member of p for a well-formed body
NameOf(b) == IF b.name.t = "absent" THEN "" ELSE b.name.s
PriceOf(b) == IF b.price.t = "absent" THEN 0 ELSE b.price.n

\* C17: every record is stored under the identity CreateProduct assigned,
\* which is its ID whatever id the body carried, with the name and price of
\* the body of the request that stored it.
C17_StoreAssignsIdentity ==
  \A k \in DOMAIN products :
    /\ products[k].ID = k
    /\ \E r \in Locked :
         /\ Pos(r) = k
         /\ products[k].Name = NameOf(req[r].body)
         /\ products[k].Price = PriceOf(req[r].body)

\* A body carrying "id": 7 was stored under identity 1.
C17_Witness ==
  \E r \in Requests :
    /\ req[r].body.id = Num(7) /\ req[r].body.name = Str("Apple")
    /\ resp[r].status = StatusCreated
    /\ Pos(r) = 1
    /\ products[1] = Product(1, "Apple", PriceOf(req[r].body))

C18_Quiescent ==
  (\A r \in Requests : ~InCritical(r)) =>
    nextID >= 1 /\ DOMAIN products = 1..(nextID - 1)
C18_Step ==
  /\ nextID' >= nextID
  /\ \A k \in DOMAIN products : k \in DOMAIN products' /\ products'[k] = products[k]

\* C18: nextID starts at 1 and never decreases; outside a CreateProduct
\* critical section the keys of products are exactly 1..nextID-1; a record
\* once stored under an identity stays as it is.
C18_Counter == (nextID = 1) /\ []C18_Quiescent /\ [][C18_Step]_vars

\* Two creates have returned, a third waits for the lock: nextID is 3.
C18_Witness ==
  /\ \A r \in Requests : ~InCritical(r)
  /\ \E r \in Requests : pc[r] = "cp_lock"
  /\ nextID = 3
  /\ DOMAIN products = {1, 2}

C19_OneRecord ==
  /\ \A n \in DOMAIN items : items[n].Name = n
  /\ (\A t \in Tasks : tpc[t] = "idle") =>
       /\ DOMAIN items = DOMAIN took
       /\ \A n \in DOMAIN items : items[n] = took[n]
C19_Lookup ==
  \A t \in Tasks :
    tpc[t] = "get_lookup" /\ tpc'[t] = "get_unlock" =>
      /\ ret'[t].err = ErrNotFound <=> call[t].name \notin DOMAIN took
      /\ call[t].name \in DOMAIN took => ret'[t].item = Ref(took[call[t].name])

\* C19: each name has one record, stored under it; a GetItem returns
\* not-found exactly when no AddItem for the name has taken the lock, and
\* otherwise the record of the AddItem that took the lock last; with every
\* call returned the map holds, per name, the record of the last AddItem in
\* lock order.
C19_LockOrder == []C19_OneRecord /\ [][C19_Lookup]_vars

\* A GetItem returned the record of the second AddItem for its name while a
\* third call, an AddItem for the same name, waits for the lock.
C19_Witness ==
  \E t, u \in Tasks :
    /\ tpc[t] = "get_unlock" /\ ret[t].err = NoError
    /\ ret[t].item[1].Price = 2
    /\ tpc[u] = "add_lock" /\ call[u].name = call[t].name /\ call[u].price = 1
    /\ calls = 4
====
